---------------------------- MODULE Spec2Model ----------------------------
(***************************************************************************)
(* Resume analyzer: the keyword engine of analyzer_core.py and the Flask   *)
(* application of app.py.  A text is a sequence of one-character strings;  *)
(* a token is a non-empty sequence of lowercase letters.  Every operation  *)
(* of the engine is a function of its arguments; the only state that       *)
(* outlives a call is the resumes table the /analyze route inserts into.   *)
(* The state records the last call (op, args), what it returned (ret) and  *)
(* the number of rows of the table (db_rows).                              *)
(***************************************************************************)
EXTENDS Integers, Sequences, FiniteSets, TLC

VARIABLES op, args, ret, db_rows

vars == <<op, args, ret, db_rows>>

---------------------------------------------------------------------------
(* Characters and the str methods the code uses.                           *)

LOWER == <<"a", "b", "c", "d", "e", "f", "g", "h", "i", "j", "k", "l", "m", "n", "o", "p", "q", "r", "s", "t", "u", "v", "w", "x", "y", "z">>

UPPER == <<"A", "B", "C", "D", "E", "F", "G", "H", "I", "J", "K", "L", "M", "N", "O", "P", "Q", "R", "S", "T", "U", "V", "W", "X", "Y", "Z">>

DIGITS == <<"0", "1", "2", "3", "4", "5", "6", "7", "8", "9">>

\* every character of the model's texts, in code point order
CHARS == <<" ", "%", "-">> \o DIGITS \o UPPER \o LOWER

\* the value None
None == <<"None">>

\* (text or '')
OrEmpty(text) == IF text = None THEN <<>> ELSE text

WHITESPACE == {" "}

Range(s) == {s[i] : i \in 1..Len(s)}

Min(a, b) == IF a < b THEN a ELSE b

Max(a, b) == IF a > b THEN a ELSE b

CAPITALS == Range(UPPER)

LOWER_OF == [c \in CAPITALS |-> LOWER[CHOOSE i \in 1..26 : UPPER[i] = c]]

\* str.lower() on one character
LowerChar(c) == IF c \in CAPITALS THEN LOWER_OF[c] ELSE c

\* str.lower()
Lower(text) == [i \in 1..Len(text) |-> LowerChar(text[i])]

\* the regex class [a-zA-Z]
LETTERS == Range(LOWER) \cup CAPITALS

\* the regex class \w, on the characters of the model
WORD_CHARS == LETTERS \cup Range(DIGITS)

IsLetter(c) == c \in LETTERS

\* the characters that are no whitespace
NON_SPACE == Range(CHARS) \ WHITESPACE

\* str.isspace() on one character
IsSpace(c) == c \in WHITESPACE

ORD_OF == [c \in Range(CHARS) |-> CHOOSE i \in 1..Len(CHARS) : CHARS[i] = c]

\* ord(c), up to an order-preserving renumbering
Ord(c) == ORD_OF[c]

\* pattern in text (the str operator "in")
Contains(text, pattern) ==
    \E i \in 0..(Len(text) - Len(pattern)) :
        \A k \in 1..Len(pattern) : text[i + k] = pattern[k]

\* str < str
RECURSIVE StrLess(_, _)
StrLess(s, t) ==
    IF t = <<>> THEN FALSE
    ELSE IF s = <<>> THEN TRUE
    ELSE IF Ord(Head(s)) # Ord(Head(t)) THEN Ord(Head(s)) < Ord(Head(t))
    ELSE StrLess(Tail(s), Tail(t))

\* sorted(S) for a set S of strings
RECURSIVE Sorted(_)
Sorted(S) ==
    IF S = {} THEN <<>>
    ELSE LET m == CHOOSE x \in S : \A y \in S \ {x} : StrLess(x, y)
         IN  <<m>> \o Sorted(S \ {m})

\* seq[:n], Python slice semantics: a negative n counts from the end
Slice(seq, n) ==
    IF n >= 0 THEN SubSeq(seq, 1, Min(n, Len(seq)))
    ELSE SubSeq(seq, 1, Max(0, Len(seq) + n))

\* the maximal runs of characters of a class, left to right: RunStarts are the
\* positions where a run begins, RunEnd(i) is where the run begun at i ends
IsRunStart(text, class, i) == text[i] \in class /\ (i = 1 \/ text[i - 1] \notin class)

RunStarts(text, class) == {i \in 1..Len(text) : IsRunStart(text, class, i)}

RunEnd(text, class, i) ==
    CHOOSE j \in i..Len(text) :
        /\ \A k \in i..j : text[k] \in class
        /\ (j = Len(text) \/ text[j + 1] \notin class)

\* the runs of length >= minLen, in order of appearance (re.findall)
FindRuns(text, class, minLen) ==
    LET RECURSIVE Collect(_, _)
        Collect(lo, hi) ==
            IF lo > hi THEN <<>>
            ELSE IF lo = hi
            THEN IF IsRunStart(text, class, lo) /\ RunEnd(text, class, lo) - lo + 1 >= minLen
                 THEN <<SubSeq(text, lo, RunEnd(text, class, lo))>>
                 ELSE <<>>
            ELSE Collect(lo, (lo + hi) \div 2) \o Collect((lo + hi) \div 2 + 1, hi)
    IN  Collect(1, Len(text))

---------------------------------------------------------------------------
(* analyzer_core.py                                                        *)

COMMON_STOP_WORDS ==
    {<<"t", "h", "e">>, <<"a">>, <<"a", "n">>, <<"a", "n", "d">>, <<"o", "r">>,
     <<"b", "u", "t">>, <<"i", "n">>, <<"o", "n">>, <<"a", "t">>, <<"t", "o">>,
     <<"f", "o", "r">>, <<"o", "f">>, <<"i", "s">>, <<"w", "a", "s">>, <<"b", "e">>,
     <<"a", "r", "e">>, <<"w", "e", "r", "e">>, <<"b", "e", "e", "n">>,
     <<"w", "i", "t", "h">>, <<"f", "r", "o", "m">>, <<"b", "y">>, <<"a", "s">>, <<"i", "t">>,
     <<"t", "h", "i", "s">>, <<"t", "h", "a", "t">>, <<"t", "h", "e", "s", "e">>,
     <<"t", "h", "o", "s", "e">>, <<"i">>, <<"y", "o", "u">>, <<"h", "e">>, <<"s", "h", "e">>,
     <<"w", "e">>, <<"t", "h", "e", "y">>, <<"w", "h", "a", "t">>,
     <<"w", "h", "i", "c", "h">>, <<"w", "h", "o">>, <<"w", "h", "e", "n">>,
     <<"w", "h", "e", "r", "e">>, <<"w", "h", "y">>, <<"h", "o", "w">>}

normalize_text_to_tokens(text) == FindRuns(Lower(OrEmpty(text)), LETTERS, 2)

\* the filter without its stop word test
RECURSIVE filter_by_length_only(_)
filter_by_length_only(tokens) ==
    IF tokens = <<>> THEN <<>>
    ELSE LET t == Head(tokens)
             rest == filter_by_length_only(Tail(tokens))
         IN  IF Len(t) > 2 THEN <<t>> \o rest ELSE rest

RECURSIVE filter_meaningful_tokens(_)
filter_meaningful_tokens(tokens) ==
    IF tokens = <<>> THEN <<>>
    ELSE LET t == Head(tokens)
             rest == filter_meaningful_tokens(Tail(tokens))
         IN  IF t \notin COMMON_STOP_WORDS /\ Len(t) > 2 THEN <<t>> \o rest ELSE rest

\* the totals taken from the lists after the cut
analyze_keywords_counting_shown(resume_text, job_desc, max_items) ==
    LET resume_tokens == Range(filter_meaningful_tokens(normalize_text_to_tokens(resume_text)))
        job_tokens == Range(filter_meaningful_tokens(normalize_text_to_tokens(job_desc)))
        matched == Slice(Sorted(resume_tokens \cap job_tokens), max_items)
        missing == Slice(Sorted(job_tokens \ resume_tokens), max_items)
    IN  [matched |-> matched,
         missing |-> missing,
         matched_count_total |-> Len(matched),
         missing_count_total |-> Len(missing)]

\* the lists cut one element late
analyze_keywords_cut_late(resume_text, job_desc, max_items) ==
    LET resume_tokens == Range(filter_meaningful_tokens(normalize_text_to_tokens(resume_text)))
        job_tokens == Range(filter_meaningful_tokens(normalize_text_to_tokens(job_desc)))
        matched == Sorted(resume_tokens \cap job_tokens)
        missing == Sorted(job_tokens \ resume_tokens)
    IN  [matched |-> Slice(matched, max_items + 1),
         missing |-> Slice(missing, max_items + 1),
         matched_count_total |-> Len(matched),
         missing_count_total |-> Len(missing)]

analyze_keywords(resume_text, job_desc, max_items) ==
    LET resume_tokens == Range(filter_meaningful_tokens(normalize_text_to_tokens(resume_text)))
        job_tokens == Range(filter_meaningful_tokens(normalize_text_to_tokens(job_desc)))
        matched == Sorted(resume_tokens \cap job_tokens)
        missing == Sorted(job_tokens \ resume_tokens)
    IN  [matched |-> Slice(matched, max_items),
         missing |-> Slice(missing, max_items),
         matched_count_total |-> Len(matched),
         missing_count_total |-> Len(missing)]

\* one feedback entry; the message is its template and the values interpolated
Item(type, title, template, values) ==
    [type |-> type, title |-> title, message |-> <<template>> \o values]

\* ", ".join(keywords) is the empty string
JoinIsEmpty(keywords) == keywords = <<>> \/ keywords = <<<<>>>>

\* the feedback list before the return statement: one entry for each rule
\* that fires, in the order of the if statements
feedback_rules(resume_text, matched_keywords, missing_keywords, matched_total, missing_total) ==
    LET resume_lower == Lower(OrEmpty(resume_text))
        low == IF matched_total < 8
               THEN <<Item("critical", "Low keyword match",
                           "Only {} relevant keywords were found. Aim for at least 10-20 job-specific terms.",
                           <<matched_total>>)>>
               ELSE <<>>
        skills == IF missing_total > 15
                  THEN <<Item("warning", "Missing key skills",
                              "{} important keywords are missing. Consider adding: {}.",
                              <<missing_total,
                                IF JoinIsEmpty(Slice(missing_keywords, 5))
                                THEN <<"job-specific terms">>
                                ELSE Slice(missing_keywords, 5)>>)>>
                  ELSE <<>>
        metrics == IF /\ ~Contains(resume_lower, <<"i", "n", "c", "r", "e", "a", "s", "e", "d">>)
                      /\ ~Contains(resume_lower, <<"i", "m", "p", "r", "o", "v", "e", "d">>)
                      /\ ~Contains(resume_text, <<"%">>)
                   THEN <<Item("warning", "No measurable achievements",
                               "Add quantifiable metrics (e.g., \"reduced processing time by 30%\", \"improved conversion by 12%\").",
                               <<>>)>>
                   ELSE <<>>
        action_verbs == <<<<"l", "e", "d">>, <<"d", "e", "v", "e", "l", "o", "p", "e", "d">>,
     <<"m", "a", "n", "a", "g", "e", "d">>,
     <<"i", "m", "p", "l", "e", "m", "e", "n", "t", "e", "d">>,
     <<"d", "e", "s", "i", "g", "n", "e", "d">>>>
        verbs == IF ~\E i \in 1..Len(action_verbs) : Contains(resume_lower, action_verbs[i])
                 THEN <<Item("warning", "Weak action verbs",
                             "Use stronger action verbs: Led, Developed, Managed, Implemented, Designed.",
                             <<>>)>>
                 ELSE <<>>
        great == IF matched_total >= 12 /\ missing_total <= 8
                 THEN <<Item("success", "Great keyword alignment",
                             "Your resume aligns well with this role. Keep tailoring for each application.",
                             <<>>)>>
                 ELSE <<>>
    IN  low \o skills \o metrics \o verbs \o great

\* the feedback list returned as it is, without the default entry
generate_smart_feedback_without_default(resume_text, matched_keywords, missing_keywords, matched_total, missing_total) ==
    [raised |-> IF resume_text = None THEN "TypeError" ELSE "",
     value |-> feedback_rules(resume_text, matched_keywords, missing_keywords,
                              matched_total, missing_total)]

\* '%' not in None raises TypeError; it is evaluated for None, whose lowercase
\* text '' holds neither 'increased' nor 'improved'
generate_smart_feedback(resume_text, matched_keywords, missing_keywords, matched_total, missing_total) ==
    LET feedback == feedback_rules(resume_text, matched_keywords, missing_keywords,
                                   matched_total, missing_total)
    IN  IF resume_text = None
        THEN [raised |-> "TypeError"]
        ELSE [raised |-> "",
              value |-> IF feedback # <<>> THEN feedback
                        ELSE <<Item("success", "Good resume foundation",
                                    "Your resume looks solid. Continue tailoring it for each role.",
                                    <<>>)>>]

\* the keys of Counter(words), in insertion (first occurrence) order
RECURSIVE CounterKeys(_)
CounterKeys(words) ==
    IF words = <<>> THEN <<>>
    ELSE LET init == SubSeq(words, 1, Len(words) - 1)
             last == words[Len(words)]
         IN  IF last \in Range(init) THEN CounterKeys(init)
             ELSE CounterKeys(init) \o <<last>>

\* Counter(words).items(): (key, count) pairs in insertion order
CounterItems(words) ==
    LET keys == CounterKeys(words)
    IN  [k \in 1..Len(keys) |->
            <<keys[k], Cardinality({i \in 1..Len(words) : words[i] = keys[k]})>>]

\* a sort by count that is not stable: an item goes before those of its count
RECURSIVE SortedByCountDescUnstable(_)
SortedByCountDescUnstable(items) ==
    IF items = <<>> THEN <<>>
    ELSE LET init == SortedByCountDescUnstable(SubSeq(items, 1, Len(items) - 1))
             last == items[Len(items)]
             before == Cardinality({i \in 1..Len(init) : init[i][2] > last[2]})
         IN  SubSeq(init, 1, before) \o <<last>> \o SubSeq(init, before + 1, Len(init))

\* sorted(items, key=count, reverse=True): a stable sort, so items of equal
\* count keep their order in items
RECURSIVE SortedByCountDesc(_)
SortedByCountDesc(items) ==
    IF items = <<>> THEN <<>>
    ELSE LET init == SortedByCountDesc(SubSeq(items, 1, Len(items) - 1))
             last == items[Len(items)]
             before == Cardinality({i \in 1..Len(init) : init[i][2] >= last[2]})
         IN  SubSeq(init, 1, before) \o <<last>> \o SubSeq(init, before + 1, Len(init))

\* Counter.most_common(n) for n given: heapq.nlargest(n, items, key=count),
\* which is sorted(items, key=count, reverse=True)[:n]
most_common(items, n) == Slice(SortedByCountDesc(items), n)

TOP_N == 15

calculate_keyword_density(resume_text) ==
    LET words == filter_meaningful_tokens(normalize_text_to_tokens(resume_text))
    IN  most_common(CounterItems(words), TOP_N)

---------------------------------------------------------------------------
(* app.py                                                                  *)

\* str.split(): the maximal runs of non-whitespace characters
Split(text) == FindRuns(text, NON_SPACE, 1)

\* len(text.split())
SplitCount(text) == Cardinality(RunStarts(text, NON_SPACE))

\* sklearn's ENGLISH_STOP_WORDS, restricted to the words the model's texts
\* can hold: the list contains every word of COMMON_STOP_WORDS and "go"
ENGLISH_STOP_WORDS == COMMON_STOP_WORDS \cup {<<"g", "o">>, <<"a", "n", "y", "t", "h", "i", "n", "g">>}

\* TfidfVectorizer's analyzer: lowercase, token_pattern (?u)\b\w\w+\b, then
\* the stop words are dropped
TfidfTokens(text) ==
    LET tokens == FindRuns(Lower(text), WORD_CHARS, 2)
    IN  SelectSeq(tokens, LAMBDA t : t \notin ENGLISH_STOP_WORDS)

RECURSIVE Sum(_)
Sum(numbers) == IF numbers = <<>> THEN 0 ELSE Head(numbers) + Sum(Tail(numbers))

RECURSIVE SqrtIter(_, _)
SqrtIter(n, x) ==
    LET y == (x + n \div x) \div 2 IN IF y >= x THEN x ELSE SqrtIter(n, y)

\* floor of the square root
ISqrt(n) == IF n = 0 THEN 0 ELSE SqrtIter(n, n)

\* The score in hundredths (round(cos * 100, 2), in integer arithmetic and
\* rounded down).  fit_transform raises ValueError("empty vocabulary") when no
\* token of either document survives; a document without terms has the zero
\* vector, whose cosine with anything is 0.
calculate_similarity(resume_text, job_desc) ==
    LET a == CounterItems(TfidfTokens(resume_text))
        b == CounterItems(TfidfTokens(job_desc))
        terms(items) == {items[k][1] : k \in 1..Len(items)}
        count(items, t) == IF t \in terms(items)
                           THEN items[CHOOSE k \in 1..Len(items) : items[k][1] = t][2]
                           ELSE 0
        vocabulary == terms(a) \cup terms(b)
        \* idf squared, times 100, in a corpus of two documents (smooth_idf):
        \* idf = ln(3 / (1 + df)) + 1 is 1 for df = 2 and 1.4055 for df = 1
        idf2(t) == IF t \in terms(a) /\ t \in terms(b) THEN 100 ELSE 198
        dot == Sum([k \in 1..Len(a) |-> a[k][2] * count(b, a[k][1])])
        na == Sum([k \in 1..Len(a) |-> a[k][2] * a[k][2] * idf2(a[k][1])])
        nb == Sum([k \in 1..Len(b) |-> b[k][2] * b[k][2] * idf2(b[k][1])])
    IN  IF vocabulary = {} THEN [raised |-> "ValueError"]
        ELSE [raised |-> "",
              value |-> IF na = 0 \/ nb = 0 THEN 0
                        ELSE Min(10000, (1000000 * dot) \div ISqrt(na * nb))]

CountContained(text, keywords) ==
    Cardinality({i \in 1..Len(keywords) : Contains(text, keywords[i])})

\* The four scores in tenths (round(x, 1) * 10).
calculate_section_scores(resume_text, job_desc) ==
    LET resume_lower == Lower(resume_text)
        skills_keywords ==
            <<<<"p", "y", "t", "h", "o", "n">>, <<"j", "a", "v", "a">>,
     <<"j", "a", "v", "a", "s", "c", "r", "i", "p", "t">>, <<"s", "q", "l">>,
     <<"a", "w", "s">>, <<"a", "z", "u", "r", "e">>, <<"r", "e", "a", "c", "t">>,
     <<"a", "n", "g", "u", "l", "a", "r">>, <<"n", "o", "d", "e">>,
     <<"d", "j", "a", "n", "g", "o">>, <<"f", "l", "a", "s", "k">>,
     <<"t", "a", "b", "l", "e", "a", "u">>, <<"p", "o", "w", "e", "r", " ", "b", "i">>,
     <<"e", "x", "c", "e", "l">>, <<"g", "i", "t">>, <<"d", "o", "c", "k", "e", "r">>,
     <<"k", "u", "b", "e", "r", "n", "e", "t", "e", "s">>>>
        skills_found == CountContained(resume_lower, skills_keywords)
        action_verbs ==
            <<<<"l", "e", "d">>, <<"d", "e", "v", "e", "l", "o", "p", "e", "d">>,
     <<"m", "a", "n", "a", "g", "e", "d">>, <<"i", "n", "c", "r", "e", "a", "s", "e", "d">>,
     <<"i", "m", "p", "r", "o", "v", "e", "d">>, <<"r", "e", "d", "u", "c", "e", "d">>,
     <<"i", "m", "p", "l", "e", "m", "e", "n", "t", "e", "d">>,
     <<"c", "r", "e", "a", "t", "e", "d">>, <<"d", "e", "s", "i", "g", "n", "e", "d">>,
     <<"b", "u", "i", "l", "t">>, <<"a", "c", "h", "i", "e", "v", "e", "d">>>>
        action_count == CountContained(resume_lower, action_verbs)
        education_keywords ==
            <<<<"b", "a", "c", "h", "e", "l", "o", "r">>, <<"m", "a", "s", "t", "e", "r">>,
     <<"p", "h", "d">>, <<"d", "e", "g", "r", "e", "e">>,
     <<"c", "e", "r", "t", "i", "f", "i", "c", "a", "t", "i", "o", "n">>,
     <<"u", "n", "i", "v", "e", "r", "s", "i", "t", "y">>,
     <<"c", "o", "l", "l", "e", "g", "e">>, <<"i", "n", "s", "t", "i", "t", "u", "t", "e">>>>
        education_found == CountContained(resume_lower, education_keywords)
        word_count == SplitCount(resume_text)
    IN  [skills |-> Min(1000, skills_found * 100),
         experience |-> Min(1000, action_count * 200),
         education |-> Min(1000, education_found * 500),
         formatting |-> IF word_count > 100 THEN Min(1000, word_count * 2) ELSE 500]

app_generate_smart_feedback(resume_text, job_desc, matched_keywords, missing_keywords) ==
    LET resume_lower == Lower(resume_text)
        low == IF Len(matched_keywords) < 5
               THEN <<Item("critical", "Low keyword match",
                           "Your resume contains only {} matched keywords. Target roles typically need 10-20.",
                           <<Len(matched_keywords)>>)>>
               ELSE <<>>
        skills == IF Len(missing_keywords) > 15
                  THEN <<Item("warning", "Missing key skills",
                              "You're missing {} important keywords. Consider adding: {}",
                              <<Len(missing_keywords), Slice(missing_keywords, 5)>>)>>
                  ELSE <<>>
        metrics == IF /\ ~Contains(resume_lower, <<"i", "n", "c", "r", "e", "a", "s", "e", "d">>)
                      /\ ~Contains(resume_lower, <<"i", "m", "p", "r", "o", "v", "e", "d">>)
                   THEN <<Item("warning", "No measurable achievements",
                               "Add quantifiable metrics (e.g., \"increased revenue by 20%\", \"reduced processing time by 30%\")",
                               <<>>)>>
                   ELSE <<>>
        action_verbs == <<<<"l", "e", "d">>, <<"d", "e", "v", "e", "l", "o", "p", "e", "d">>,
     <<"m", "a", "n", "a", "g", "e", "d">>,
     <<"i", "m", "p", "l", "e", "m", "e", "n", "t", "e", "d">>,
     <<"d", "e", "s", "i", "g", "n", "e", "d">>>>
        verbs == IF ~\E i \in 1..Len(action_verbs) : Contains(resume_lower, action_verbs[i])
                 THEN <<Item("warning", "Weak action verbs",
                             "Use strong action verbs like: Led, Developed, Managed, Implemented, Designed",
                             <<>>)>>
                 ELSE <<>>
        great == IF Len(matched_keywords) > 10
                 THEN <<Item("success", "Great keyword alignment",
                             "Your resume matches well with the job requirements!",
                             <<>>)>>
                 ELSE <<>>
        feedback == low \o skills \o metrics \o verbs \o great
    IN  IF feedback # <<>> THEN feedback
        ELSE <<Item("success", "Good resume", "Your resume looks solid!", <<>>)>>

\* str.isalpha(), on the characters of the model
IsAlpha(w) == w # <<>> /\ \A i \in 1..Len(w) : IsLetter(w[i])

app_calculate_keyword_density(resume_text) ==
    LET words == Split(Lower(resume_text))
        filtered_words ==
            SelectSeq(words, LAMBDA w : IsAlpha(w) /\ Len(w) > 3 /\ w \notin COMMON_STOP_WORDS)
    IN  most_common(CounterItems(filtered_words), TOP_N)

\* list(S) for a set S of strings: the iteration order of a set of str depends
\* on the hash seed of the process, so any order can come out.  Every order is
\* drawn for a set of at most PermLimit elements; for a larger set the
\* ascending and the descending order stand for the rest.
PermLimit == 3

Reverse(seq) == [i \in 1..Len(seq) |-> seq[Len(seq) + 1 - i]]

ListOfSet(S) ==
    IF Cardinality(S) <= PermLimit
    THEN {f \in [1..Cardinality(S) -> S] : \A i, j \in DOMAIN f : i # j => f[i] # f[j]}
    ELSE {Sorted(S), Reverse(Sorted(S))}

\* what render_template('result.html', ...) is given on the /analyze route,
\* for the orders in which the two keyword sets happen to be listed
analyze_context(resume_text, job_desc, matched_list, missing_list) ==
    LET score == calculate_similarity(resume_text, job_desc).value
        section_scores == calculate_section_scores(resume_text, job_desc)
        level == IF score >= 8000 THEN <<"Excellent Match", "Professional">>
                 ELSE IF score >= 6000 THEN <<"Good Match", "Intermediate">>
                 ELSE <<"Needs Improvement", "Beginner">>
        section_sum == section_scores.skills + section_scores.experience
                       + section_scores.education + section_scores.formatting
        matched_keywords == Slice(matched_list, 10)
        missing_keywords == Slice(missing_list, 10)
    IN  [template |-> "result.html",
         score |-> score,
         matched |-> matched_keywords,
         missing |-> missing_keywords,
         rating |-> level[1],
         section_scores |-> section_scores,
         strength |-> level[2],
         \* round((score + sum / 4) / 2, 1) in tenths
         readiness |-> (2 * score + 5 * section_sum + 20) \div 40,
         feedback |-> app_generate_smart_feedback(resume_text, job_desc,
                                                  matched_keywords, missing_keywords),
         keyword_density |-> app_calculate_keyword_density(resume_text)]

\* the two keyword sets of the /analyze route
resume_words(resume_text) == Range(Split(Lower(resume_text)))

job_words(job_desc) == Range(Split(Lower(job_desc)))

---------------------------------------------------------------------------
(* The inputs: the texts are the first n words of a few documents, joined  *)
(* by single spaces, and one word repeated n times.                        *)

MaxWords == 21

MaxShort == 4

MaxRepeat == 102

MaxTokens == 3

MaxNegative == 2

MaxItems == 16

MaxTotal == 16

MaxMatched == 13

MaxRows == 1

RECURSIVE Join(_)
Join(words) ==
    IF words = <<>> THEN <<>>
    ELSE IF Len(words) = 1 THEN words[1]
    ELSE words[1] \o <<" ">> \o Join(Tail(words))

Repeat(word, n) ==
    [i \in 1..(n * (Len(word) + 1) - 1) |->
        IF i % (Len(word) + 1) = 0 THEN " " ELSE word[i % (Len(word) + 1)]]

Prefixes(doc, max) == {Join(SubSeq(doc, 1, n)) : n \in 0..Min(max, Len(doc))}

Longest(doc) == Join(SubSeq(doc, 1, Min(MaxWords, Len(doc))))

RESUME_MIXED == <<<<"P", "y", "t", "h", "o", "n">>, <<"S", "Q", "L">>, <<"F", "l", "a", "s", "k">>,
     <<"g", "o">>, <<"A", "I", "-", "d", "r", "i", "v", "e", "n">>, <<"2", "0", "2", "5">>,
     <<"L", "e", "d">>, <<"3", "0", "%">>, <<"i", "m", "p", "r", "o", "v", "e", "d">>>>

RESUME_SKILLS ==
    <<<<"P", "y", "t", "h", "o", "n">>, <<"p", "y", "t", "h", "o", "n">>, <<"S", "Q", "L">>,
     <<"d", "a", "t", "a">>, <<"d", "a", "t", "a">>, <<"d", "a", "t", "a">>,
     <<"a", "n", "d">>, <<"t", "h", "e">>, <<"a", "w", "s">>, <<"a", "z", "u", "r", "e">>,
     <<"r", "e", "a", "c", "t">>, <<"n", "o", "d", "e">>, <<"d", "j", "a", "n", "g", "o">>,
     <<"e", "x", "c", "e", "l">>, <<"g", "i", "t">>, <<"d", "o", "c", "k", "e", "r">>,
     <<"j", "a", "v", "a">>, <<"k", "o", "t", "l", "i", "n">>, <<"r", "u", "s", "t">>,
     <<"s", "c", "a", "l", "a">>, <<"s", "w", "i", "f", "t">>, <<"r", "u", "b", "y">>,
     <<"p", "e", "r", "l">>>>

RESUME_PLAIN == <<<<"W", "o", "r", "k", "e", "d">>, <<"o", "n">>, <<"t", "a", "s", "k", "s">>,
     <<"3", "0", "%">>, <<"I">>, <<"m", "a", "n", "a", "g", "e", "d">>, <<"a">>, <<"x">>>>

JOB_SKILLS ==
    <<<<"P", "y", "t", "h", "o", "n">>, <<"J", "a", "v", "a">>, <<"S", "Q", "L">>,
     <<"D", "o", "c", "k", "e", "r">>, <<"a", "w", "s">>, <<"a", "z", "u", "r", "e">>,
     <<"r", "e", "a", "c", "t">>, <<"n", "o", "d", "e">>, <<"d", "j", "a", "n", "g", "o">>,
     <<"e", "x", "c", "e", "l">>, <<"g", "i", "t">>, <<"k", "o", "t", "l", "i", "n">>,
     <<"r", "u", "s", "t">>, <<"s", "c", "a", "l", "a">>, <<"s", "w", "i", "f", "t">>,
     <<"r", "u", "b", "y">>, <<"p", "e", "r", "l">>>>

JOB_STOPWORDS == <<<<"T", "h", "e">>, <<"a", "n", "d">>, <<"o", "f">>, <<"i", "s">>, <<"g", "o">>,
     <<"2", "0", "2", "5">>, <<"A", "I", "-", "d", "r", "i", "v", "e", "n">>,
     <<"1", "0", "0", "%">>>>

RESUME_DOCS == {RESUME_MIXED, RESUME_SKILLS, RESUME_PLAIN}

JOB_DOCS == {JOB_SKILLS, JOB_STOPWORDS}

FEEDBACK_DOCS ==
    {<<<<"W", "o", "r", "k", "e", "d">>, <<"o", "n">>, <<"t", "a", "s", "k", "s">>,
     <<"3", "0", "%">>, <<"L", "e", "d">>, <<"i", "m", "p", "r", "o", "v", "e", "d">>>>,
     <<<<"M", "a", "n", "a", "g", "e", "d">>, <<"I", "n", "c", "r", "e", "a", "s", "e", "d">>>>}

REPEATED_WORDS == <<<<"a">>, <<"a", "b", "-", "c", "d">>, <<"l", "e", "d">>>>

KEYWORDS == <<<<"s", "q", "l">>, <<"d", "o", "c", "k", "e", "r">>,
     <<"k", "u", "b", "e", "r", "n", "e", "t", "e", "s">>, <<"a", "w", "s">>,
     <<"a", "z", "u", "r", "e">>, <<"r", "e", "a", "c", "t">>>>

TOKEN_WORDS == {<<"p", "y", "t", "h", "o", "n">>, <<"a", "n", "d">>, <<"t", "e", "a", "m">>,
     <<"t", "h", "e">>, <<"i">>, <<"g", "o">>}

ResumeTexts == UNION {Prefixes(doc, MaxWords) : doc \in RESUME_DOCS}

JobTexts == UNION {Prefixes(doc, MaxWords) : doc \in JOB_DOCS}

\* the pairs of a short resume and a short job description, and of the longest
\* resumes and any job description
TextPairs ==
    ((UNION {Prefixes(doc, MaxShort) : doc \in RESUME_DOCS})
        \X (UNION {Prefixes(doc, MaxShort) : doc \in JOB_DOCS}))
    \cup ({Longest(doc) : doc \in RESUME_DOCS} \X JobTexts)

\* a text argument: a string or None
OrNone(texts) == texts \cup {None}

\* the pairs analyze_keywords is called with: those of two strings, and those
\* in which the resume text, the job description or both are None
KeywordPairs ==
    TextPairs
    \cup ({None} \X OrNone(UNION {Prefixes(doc, MaxShort) : doc \in JOB_DOCS}))
    \cup ((UNION {Prefixes(doc, MaxShort) : doc \in RESUME_DOCS}) \X {None})

FeedbackTexts == UNION {Prefixes(doc, MaxWords) : doc \in FEEDBACK_DOCS}

\* one word repeated, with counts on both sides of the threshold of 100 for the
\* words and for twice the words
RepeatedTexts ==
    {Repeat(REPEATED_WORDS[w], n) :
        w \in 1..Len(REPEATED_WORDS),
        n \in {m \in 1..MaxRepeat : \/ m >= MaxRepeat - 3
                                    \/ (2 * m >= MaxRepeat - 3 /\ 2 * m <= MaxRepeat + 2)}}

ShortJobTexts == {j \in JobTexts : Len(j) <= 3}

KeywordLists == {Slice(KEYWORDS, n) : n \in {0, 3, 6}}

JOB_KEYWORDS == Sorted(Range(normalize_text_to_tokens(Join(JOB_SKILLS))))

TokenSeqs == UNION {[1..n -> TOKEN_WORDS] : n \in 0..MaxTokens}

Returned(value) == [raised |-> "", value |-> value]

---------------------------------------------------------------------------
(* The operations.  A call is made when no call is in progress; Return     *)
(* lets the caller take the result, which the engine does not keep.        *)

\* init_db() creates the table if database.db does not hold it: the rows of an
\* earlier run are still there
Init == op = "idle" /\ args = <<>> /\ ret = <<>> /\ db_rows \in 0..MaxRows

NormalizeTextToTokens ==
    /\ op = "idle"
    /\ \E text \in OrNone(ResumeTexts) :
        /\ args' = [text |-> text]
        /\ ret' = Returned(normalize_text_to_tokens(text))
    /\ op' = "normalize_text_to_tokens"
    /\ UNCHANGED db_rows

FilterMeaningfulTokens ==
    /\ op = "idle"
    /\ \E tokens \in TokenSeqs :
        /\ args' = [tokens |-> tokens]
        /\ ret' = Returned(filter_meaningful_tokens(tokens))
    /\ op' = "filter_meaningful_tokens"
    /\ UNCHANGED db_rows

AnalyzeKeywords ==
    /\ op = "idle"
    /\ \E pair \in KeywordPairs, max_items \in (-MaxNegative)..MaxItems :
      LET resume_text == pair[1]
          job_desc == pair[2]
      IN
        /\ args' = [resume_text |-> resume_text, job_desc |-> job_desc,
                    max_items |-> max_items]
        /\ ret' = Returned(analyze_keywords(resume_text, job_desc, max_items))
    /\ op' = "analyze_keywords"
    /\ UNCHANGED db_rows

GenerateSmartFeedback ==
    /\ op = "idle"
    /\ \E resume_text \in OrNone(FeedbackTexts), missing_keywords \in KeywordLists,
          matched_total \in 0..MaxMatched, missing_total \in 0..MaxTotal :
        /\ args' = [resume_text |-> resume_text, matched_keywords |-> <<<<"p", "y", "t", "h", "o", "n">>>>,
                    missing_keywords |-> missing_keywords,
                    matched_total |-> matched_total, missing_total |-> missing_total]
        /\ ret' = generate_smart_feedback(resume_text, <<<<"p", "y", "t", "h", "o", "n">>>>, missing_keywords,
                                          matched_total, missing_total)
    /\ op' = "generate_smart_feedback"
    /\ UNCHANGED db_rows

CalculateKeywordDensity ==
    /\ op = "idle"
    /\ \E resume_text \in OrNone(ResumeTexts) :
        /\ args' = [resume_text |-> resume_text]
        /\ ret' = Returned(calculate_keyword_density(resume_text))
    /\ op' = "calculate_keyword_density"
    /\ UNCHANGED db_rows

CalculateSimilarity ==
    /\ op = "idle"
    /\ \E pair \in TextPairs :
      LET resume_text == pair[1]
          job_desc == pair[2]
      IN
        /\ args' = [resume_text |-> resume_text, job_desc |-> job_desc]
        /\ ret' = calculate_similarity(resume_text, job_desc)
    /\ op' = "calculate_similarity"
    /\ UNCHANGED db_rows

CalculateSectionScores ==
    /\ op = "idle"
    /\ \E resume_text \in ResumeTexts \cup RepeatedTexts, job_desc \in ShortJobTexts :
        /\ args' = [resume_text |-> resume_text, job_desc |-> job_desc]
        /\ ret' = Returned(calculate_section_scores(resume_text, job_desc))
    /\ op' = "calculate_section_scores"
    /\ UNCHANGED db_rows

AppGenerateSmartFeedback ==
    /\ op = "idle"
    /\ \E resume_text \in FeedbackTexts, job_desc \in ShortJobTexts,
          matched_count \in 0..MaxMatched, missing_count \in 0..MaxTotal :
      LET matched_keywords == Slice(JOB_KEYWORDS, matched_count)
          missing_keywords == Slice(JOB_KEYWORDS, missing_count)
      IN
        /\ args' = [resume_text |-> resume_text, job_desc |-> job_desc,
                    matched_keywords |-> matched_keywords,
                    missing_keywords |-> missing_keywords]
        /\ ret' = Returned(app_generate_smart_feedback(resume_text, job_desc,
                                                       matched_keywords, missing_keywords))
    /\ op' = "app_generate_smart_feedback"
    /\ UNCHANGED db_rows

AppCalculateKeywordDensity ==
    /\ op = "idle"
    /\ \E resume_text \in ResumeTexts :
        /\ args' = [resume_text |-> resume_text]
        /\ ret' = Returned(app_calculate_keyword_density(resume_text))
    /\ op' = "app_calculate_keyword_density"
    /\ UNCHANGED db_rows

\* POST /analyze.  resume_text is what extract_text_from_pdf reads from the
\* uploaded file; a request without a file or without a job description is
\* redirected to the index.  An exception of calculate_similarity leaves the
\* route before the INSERT.
Analyze ==
    /\ op = "idle"
    /\ db_rows < MaxRows
    /\ \E has_file \in BOOLEAN, pair \in TextPairs :
      LET resume_text == pair[1]
          job_desc == pair[2]
          similarity == calculate_similarity(resume_text, job_desc)
      IN
        /\ args' = [has_file |-> has_file, resume_text |-> resume_text,
                    job_desc |-> job_desc]
        /\ IF ~has_file \/ job_desc = <<>>
           THEN /\ ret' = Returned([redirect |-> "index"])
                /\ UNCHANGED db_rows
           ELSE IF similarity.raised # ""
           THEN /\ ret' = [raised |-> similarity.raised]
                /\ UNCHANGED db_rows
           ELSE /\ \E matched_list \in ListOfSet(resume_words(resume_text)
                                                  \cap job_words(job_desc)),
                      missing_list \in ListOfSet(job_words(job_desc)
                                                  \ resume_words(resume_text)) :
                       ret' = Returned(analyze_context(resume_text, job_desc,
                                                       matched_list, missing_list))
                /\ db_rows' = db_rows + 1
    /\ op' = "analyze"

\* GET /history: every row of the table
History ==
    /\ op = "idle"
    /\ args' = <<>>
    /\ ret' = Returned([template |-> "history.html", rows |-> db_rows])
    /\ op' = "history"
    /\ UNCHANGED db_rows

\* the caller has the result; nothing of the call is kept
Return ==
    /\ op # "idle"
    /\ op' = "idle"
    /\ args' = <<>>
    /\ ret' = <<>>
    /\ UNCHANGED db_rows

Next ==
    \/ NormalizeTextToTokens
    \/ FilterMeaningfulTokens
    \/ AnalyzeKeywords
    \/ GenerateSmartFeedback
    \/ CalculateKeywordDensity
    \/ CalculateSimilarity
    \/ CalculateSectionScores
    \/ AppGenerateSmartFeedback
    \/ AppCalculateKeywordDensity
    \/ Analyze
    \/ History
    \/ Return

Spec == Init /\ [][Next]_vars

---------------------------------------------------------------------------
(* Properties.                                                             *)

Called(name) == op = name /\ ret.raised = ""

\* the keyword set of a text, stated on the tokens: the distinct tokens that
\* are no stop word and have at least 3 letters
KeywordSet(text) ==
    {t \in Range(normalize_text_to_tokens(text)) : t \notin COMMON_STOP_WORDS /\ Len(t) >= 3}

\* C1: analyze_keywords returns matched_count_total = |R \cap J| and
\* missing_count_total = |J \ R| = |J| - matched_count_total, for R and J the
\* keyword sets of the resume and of the job description, whatever max_items is.
C1_TotalsAreSetSizes ==
    Called("analyze_keywords") =>
        LET R == KeywordSet(args.resume_text)
            J == KeywordSet(args.job_desc)
        IN  /\ ret.value.matched_count_total = Cardinality(R \cap J)
            /\ ret.value.missing_count_total = Cardinality(J \ R)
            /\ ret.value.missing_count_total = Cardinality(J) - ret.value.matched_count_total

\* a call whose matched list is cut short and that misses keywords
C1_Witness ==
    /\ Called("analyze_keywords")
    /\ args.max_items = 10
    /\ ret.value.matched_count_total > 10
    /\ Len(ret.value.matched) = 10
    /\ ret.value.missing_count_total >= 1

\* C2, as claimed: for every integer max_items, matched_count_total is at least
\* the length of the matched list, and equals it iff it is at most max_items.
C2_AsClaimed ==
    Called("analyze_keywords") =>
        /\ ret.value.matched_count_total >= Len(ret.value.matched)
        /\ (ret.value.matched_count_total = Len(ret.value.matched)
                <=> ret.value.matched_count_total <= args.max_items)

\* C2, amended: matched_count_total is at least the length of the matched list
\* for every integer max_items; the two are equal iff matched_count_total <=
\* max_items when max_items >= 0, and iff matched_count_total = 0 when
\* max_items < 0.
C2_TotalBoundsList ==
    Called("analyze_keywords") =>
        /\ ret.value.matched_count_total >= Len(ret.value.matched)
        /\ (ret.value.matched_count_total = Len(ret.value.matched)
                <=> IF args.max_items >= 0
                    THEN ret.value.matched_count_total <= args.max_items
                    ELSE ret.value.matched_count_total = 0)

\* a list cut short by a positive max_items
C2_Witness ==
    /\ Called("analyze_keywords")
    /\ args.max_items > 0
    /\ ret.value.matched_count_total > args.max_items
    /\ Len(ret.value.matched) = args.max_items

IsPrefix(list, full) == Len(list) <= Len(full) /\ list = SubSeq(full, 1, Len(list))

Rendered == Called("analyze") /\ "template" \in DOMAIN ret.value

\* C3: the matched and missing lists shown to the user are each a prefix of
\* the full keyword set in ascending lexicographic order, whatever the limit.
\* The lists shown are those of analyze_keywords and those the /analyze route
\* renders, each against the sets it is cut from.
C3_ListsAreSortedPrefixes ==
    /\ Called("analyze_keywords") =>
        /\ IsPrefix(ret.value.matched,
                    Sorted(KeywordSet(args.resume_text) \cap KeywordSet(args.job_desc)))
        /\ IsPrefix(ret.value.missing,
                    Sorted(KeywordSet(args.job_desc) \ KeywordSet(args.resume_text)))
    /\ Rendered =>
        /\ IsPrefix(ret.value.matched,
                    Sorted(resume_words(args.resume_text) \cap job_words(args.job_desc)))
        /\ IsPrefix(ret.value.missing,
                    Sorted(job_words(args.job_desc) \ resume_words(args.resume_text)))

\* the part of C3 that analyze_keywords decides: each list is strictly
\* ascending, holds the smallest keywords of its set, and has min(max_items, n)
\* of the n keywords when max_items >= 0
AscendingPrefixOf(list, S, max_items) ==
    /\ \A i \in 1..Len(list) : list[i] \in S
    /\ \A i, j \in 1..Len(list) : i < j => StrLess(list[i], list[j])
    /\ \A t \in S \ Range(list) : \A i \in 1..Len(list) : StrLess(list[i], t)
    /\ max_items >= 0 => Len(list) = Min(max_items, Cardinality(S))

C3_CoreListsAreSortedPrefixes ==
    Called("analyze_keywords") =>
        /\ AscendingPrefixOf(ret.value.matched,
                             KeywordSet(args.resume_text) \cap KeywordSet(args.job_desc),
                             args.max_items)
        /\ AscendingPrefixOf(ret.value.missing,
                             KeywordSet(args.job_desc) \ KeywordSet(args.resume_text),
                             args.max_items)

Titles(feedback) == [i \in 1..Len(feedback) |-> feedback[i].title]

\* C4: the feedback shown with an analysis compares the untruncated keyword
\* counts with its thresholds: "Missing key skills" is among the feedback
\* whenever more than 15 job keywords are missing, although at most 10 are
\* displayed.
C4_FeedbackUsesTotals ==
    Rendered =>
        (Cardinality(KeywordSet(args.job_desc) \ KeywordSet(args.resume_text)) > 15
            => "Missing key skills" \in Range(Titles(ret.value.feedback)))

\* the conditions of the five rules, on the arguments of a call
NoMetrics(text) ==
    /\ ~Contains(Lower(text), <<"i", "n", "c", "r", "e", "a", "s", "e", "d">>)
    /\ ~Contains(Lower(text), <<"i", "m", "p", "r", "o", "v", "e", "d">>)
    /\ "%" \notin Range(text)

NoVerbs(text) ==
    \A verb \in {<<"l", "e", "d">>, <<"d", "e", "v", "e", "l", "o", "p", "e", "d">>,
     <<"m", "a", "n", "a", "g", "e", "d">>,
     <<"i", "m", "p", "l", "e", "m", "e", "n", "t", "e", "d">>,
     <<"d", "e", "s", "i", "g", "n", "e", "d">>} : ~Contains(Lower(text), verb)

ExpectedTitles(text, matchedTotal, missingTotal) ==
    (IF matchedTotal < 8 THEN <<"Low keyword match">> ELSE <<>>)
    \o (IF missingTotal > 15 THEN <<"Missing key skills">> ELSE <<>>)
    \o (IF NoMetrics(text) THEN <<"No measurable achievements">> ELSE <<>>)
    \o (IF NoVerbs(text) THEN <<"Weak action verbs">> ELSE <<>>)
    \o (IF matchedTotal >= 12 /\ missingTotal <= 8 THEN <<"Great keyword alignment">> ELSE <<>>)

\* C5: generate_smart_feedback never returns an empty sequence; when no rule
\* fires it returns exactly one item, of type success and titled "Good resume
\* foundation", and that item is returned only when no rule fires.
C5_NeverEmpty ==
    Called("generate_smart_feedback") =>
        LET expected == ExpectedTitles(args.resume_text, args.matched_total, args.missing_total)
        IN  /\ Len(ret.value) >= 1
            /\ expected = <<>> =>
                /\ Len(ret.value) = 1
                /\ ret.value[1].type = "success"
                /\ ret.value[1].title = "Good resume foundation"
            /\ "Good resume foundation" \in Range(Titles(ret.value)) => expected = <<>>

\* a call in which no rule fires
C5_Witness ==
    /\ Called("generate_smart_feedback")
    /\ args.matched_total >= 8
    /\ args.matched_total < 12
    /\ args.missing_total <= 15
    /\ ~NoMetrics(args.resume_text)
    /\ ~NoVerbs(args.resume_text)
    /\ Titles(ret.value) = <<"Good resume foundation">>

TYPE_OF_TITLE ==
    [t \in {"Low keyword match"} |-> "critical"]
    @@ [t \in {"Missing key skills", "No measurable achievements", "Weak action verbs"}
            |-> "warning"]
    @@ [t \in {"Great keyword alignment"} |-> "success"]

ExactlyTheRules(feedback, text, matchedTotal, missingTotal) ==
    LET expected == ExpectedTitles(text, matchedTotal, missingTotal)
    IN  expected # <<>> =>
            /\ Titles(feedback) = expected
            /\ \A i \in 1..Len(feedback) : feedback[i].type = TYPE_OF_TITLE[feedback[i].title]

\* C6: the items generate_smart_feedback returns are exactly the rules whose
\* condition holds, once each and in the order low match (matchedTotal < 8),
\* missing skills (missingTotal > 15), no measurable achievements, weak action
\* verbs, great alignment (matchedTotal >= 12 and missingTotal <= 8); this is
\* stated of both functions of that name, the one of app.py taking the lengths
\* of the lists it is given as the totals.
C6_ExactlyTheRules ==
    /\ Called("generate_smart_feedback") =>
        ExactlyTheRules(ret.value, args.resume_text, args.matched_total, args.missing_total)
    /\ Called("app_generate_smart_feedback") =>
        ExactlyTheRules(ret.value, args.resume_text,
                        Len(args.matched_keywords), Len(args.missing_keywords))

\* the part of C6 that analyzer_core.generate_smart_feedback decides
C6_CoreExactlyTheRules ==
    Called("generate_smart_feedback") =>
        ExactlyTheRules(ret.value, args.resume_text, args.matched_total, args.missing_total)

IsBlank(text) == \A i \in 1..Len(text) : IsSpace(text[i])

\* C7: calculate_similarity does not raise on degenerate input and returns 0.0
\* when either text is empty or whitespace only, or when the two texts have no
\* usable vocabulary.
C7_DegenerateIsZero ==
    (/\ op = "calculate_similarity"
     /\ \/ IsBlank(args.resume_text)
        \/ IsBlank(args.job_desc)
        \/ Range(TfidfTokens(args.resume_text)) \cup Range(TfidfTokens(args.job_desc)) = {})
        => ret.raised = "" /\ ret.value = 0

\* C8: the formatting score is 50.0 whenever the tokenizer finds at most 100
\* words in the resume, is min(100, words / 500 * 100) above that, and lies in
\* [0, 100].  The scores are in tenths.
C8_FormattingByTokenCount ==
    Called("calculate_section_scores") =>
        LET wordCount == Len(normalize_text_to_tokens(args.resume_text))
        IN  /\ wordCount <= 100 => ret.value.formatting = 500
            /\ wordCount > 100 => ret.value.formatting = Min(1000, 2 * wordCount)
            /\ ret.value.formatting \in 0..1000

\* the first position of a token in a sequence of tokens
FirstPos(words, t) == CHOOSE i \in 1..Len(words) : words[i] = t /\ \A j \in 1..(i - 1) : words[j] # t

Occurrences(words, t) == Cardinality({i \in 1..Len(words) : words[i] = t})

\* (t, c) ranks before (u, d): a larger count, or the same count and an earlier
\* first occurrence
RanksBefore(words, t, u) ==
    \/ Occurrences(words, t) > Occurrences(words, u)
    \/ /\ Occurrences(words, t) = Occurrences(words, u)
       /\ FirstPos(words, t) < FirstPos(words, u)

\* the keywords of a text with their multiplicity, stated on the tokens
KeywordTokens(text) ==
    SelectSeq(normalize_text_to_tokens(text),
              LAMBDA t : t \notin COMMON_STOP_WORDS /\ Len(t) >= 3)

\* C9: calculate_keyword_density returns at most 15 (token, count) pairs over
\* the filtered tokens of the resume, each count the number of occurrences of
\* its token, in descending order of count and, for equal counts, in order of
\* first occurrence; the pairs kept are the first 15 of that order.
C9_DensityRanking ==
    Called("calculate_keyword_density") =>
        LET words == KeywordTokens(args.resume_text)
            density == ret.value
            kept == {density[k][1] : k \in 1..Len(density)}
        IN  /\ Len(density) = Min(15, Cardinality(Range(words)))
            /\ \A k \in 1..Len(density) :
                /\ density[k][1] \in Range(words)
                /\ density[k][2] = Occurrences(words, density[k][1])
            /\ \A k, l \in 1..Len(density) :
                k < l => RanksBefore(words, density[k][1], density[l][1])
            /\ \A t \in Range(words) \ kept :
                \A k \in 1..Len(density) : RanksBefore(words, density[k][1], t)

\* more than 15 distinct keywords, with different counts and with equal counts
C9_Witness ==
    /\ Called("calculate_keyword_density")
    /\ Cardinality(Range(KeywordTokens(args.resume_text))) > 15
    /\ Len(ret.value) = 15
    /\ ret.value[1] = <<<<"d", "a", "t", "a">>, 3>>
    /\ ret.value[2][2] = 2
    /\ ret.value[3][2] = ret.value[4][2]

Kept(t) == t \notin COMMON_STOP_WORDS /\ Len(t) > 2

\* the number of tokens kept among the first k
KeptUpTo(tokens, k) == Cardinality({i \in 1..k : Kept(tokens[i])})

\* C10: filter_meaningful_tokens returns exactly the tokens that are no stop
\* word and longer than 2, in their order and with their multiplicity: the
\* i-th token kept is the i-th element of the result.  Hence no keyword of a
\* matched list, a missing list or a density ranking is a stop word or shorter
\* than 3 letters.
C10_FilterKeepsExactly ==
    /\ Called("filter_meaningful_tokens") =>
        /\ Len(ret.value) = KeptUpTo(args.tokens, Len(args.tokens))
        /\ \A k \in 1..Len(args.tokens) :
            Kept(args.tokens[k]) => ret.value[KeptUpTo(args.tokens, k)] = args.tokens[k]
    /\ Called("analyze_keywords") =>
        \A t \in Range(ret.value.matched) \cup Range(ret.value.missing) : Kept(t)
    /\ Called("calculate_keyword_density") =>
        \A k \in 1..Len(ret.value) : Kept(ret.value[k][1])

\* a stop word and a one-letter token dropped between two copies of a keyword
C10_Witness ==
    /\ Called("filter_meaningful_tokens")
    /\ args.tokens = <<<<"p", "y", "t", "h", "o", "n">>, <<"a", "n", "d">>, <<"p", "y", "t", "h", "o", "n">>>>
    /\ ret.value = <<<<"p", "y", "t", "h", "o", "n">>, <<"p", "y", "t", "h", "o", "n">>>>


\* C11: each operation of analyzer_core that takes a text treats None as the
\* empty string: called with None it does not raise and returns what it
\* returns for ''.
C11_NullTextIsEmpty ==
    /\ (op = "normalize_text_to_tokens" /\ args.text = None)
        => ret = Returned(normalize_text_to_tokens(<<>>))
    /\ (op = "analyze_keywords" /\ None \in {args.resume_text, args.job_desc})
        => ret = Returned(analyze_keywords(OrEmpty(args.resume_text),
                                           OrEmpty(args.job_desc), args.max_items))
    /\ (op = "calculate_keyword_density" /\ args.resume_text = None)
        => ret = Returned(calculate_keyword_density(<<>>))
    /\ (op = "generate_smart_feedback" /\ args.resume_text = None)
        => ret = generate_smart_feedback(<<>>, args.matched_keywords,
                                         args.missing_keywords,
                                         args.matched_total, args.missing_total)

\* the part of C11 that normalize_text_to_tokens, analyze_keywords and
\* calculate_keyword_density decide
C11_TokenizingTreatsNullAsEmpty ==
    /\ (op = "normalize_text_to_tokens" /\ args.text = None)
        => ret = Returned(<<>>)
    /\ (op = "analyze_keywords" /\ args.resume_text = None)
        => /\ ret.raised = ""
           /\ ret.value.matched = <<>>
           /\ ret.value.matched_count_total = 0
           /\ ret.value.missing_count_total = Cardinality(KeywordSet(args.job_desc))
    /\ (op = "analyze_keywords" /\ args.job_desc = None)
        => ret = Returned([matched |-> <<>>, missing |-> <<>>,
                           matched_count_total |-> 0, missing_count_total |-> 0])
    /\ (op = "calculate_keyword_density" /\ args.resume_text = None)
        => ret = Returned(<<>>)

\* generate_smart_feedback called with None for the resume text
C11_NullFeedbackCall ==
    op = "generate_smart_feedback" /\ args.resume_text = None
=============================================================================
